---- MODULE Spec2Model ----
(***************************************************************************)
(* Model of src/dma.rs: the DMA channel driver `Dma` (cfg_channel, stop,   *)
(* channel_select, mux, enable_interrupt, clear_interrupt) with the        *)
(* register file it drives.                                                *)
(*                                                                         *)
(* Every register access of the driver is one step, so that the order of   *)
(* the accesses of one call can be observed (variable `trace`) and so that *)
(* the controller, which runs on its own, can act between two accesses     *)
(* (action HwTransferError) and between the bus read and the bus write of  *)
(* one read-modify-write (HwBetween).  `pc` is the position of the one     *)
(* software context inside the call it is executing; "idle" and "done" are *)
(* the two positions outside a call, "done" being the state a call         *)
(* returned into; "panicked" is the state a panic left, after which no     *)
(* call is made.                                                           *)
(*                                                                         *)
(* The controller's reaction to a write is what the source documents:      *)
(*   - CCR fields other than EN are read-only while EN = 1 (dma.rs:154);   *)
(*   - after a transfer error the hardware clears EN, and EN cannot be set *)
(*     again while the TEIF flag is latched (dma.rs:711-714);              *)
(*   - a flag is cleared by writing 1 to its bit of IFCR (dma.rs:935-982). *)
(* A write of CPAR/CMAR/CNDTR to an enabled channel is not defined by the  *)
(* hardware contract: the model takes it either way (honoured or ignored). *)
(*                                                                         *)
(* Spec and SpecCfg run on a controller that applies every write at once   *)
(* and on which a transfer can fail at any time.  SpecEi runs              *)
(* enable_interrupt on a controller that may apply a change of EN after a  *)
(* delay (HwReflect), which is what its two loops wait for, and on which   *)
(* no transfer fails while a call is executing.  SpecIrq adds a second     *)
(* software context, an interrupt handler that calls stop (IrqStop).       *)
(***************************************************************************)
EXTENDS Integers, Sequences, FiniteSets, TLC

(* ------------------------------ bounds -------------------------------- *)
NumChannels == 2
MaxCalls == 2
MaxHandlerCalls == 1

(* --------------------------- value types ------------------------------ *)
DmaChannel == 1..NumChannels

DmaInterrupt == {"TransferError", "HalfTransfer", "TransferComplete"}

Priority == {"Low", "Medium", "High", "VeryHigh"}
Direction == {"ReadFromPeriph", "ReadFromMem"}
Circular == {"Disabled", "Enabled"}
IncrMode == {"Disabled", "Enabled"}
DataSize == {"S8", "S16", "S32"}

\* `$priority as u8`
PriorityBits(p) ==
  CASE p = "Low" -> 0 [] p = "Medium" -> 1 [] p = "High" -> 2 [] p = "VeryHigh" -> 3

\* `$direction as u8`
DirectionBits(d) == IF d = "ReadFromPeriph" THEN 0 ELSE 1

\* `$circular as u8`
CircularBits(c) == IF c = "Disabled" THEN 0 ELSE 1

\* `$periph_incr as u8`, `$mem_incr as u8`
IncrModeBits(i) == IF i = "Disabled" THEN 0 ELSE 1

\* (mutant) the discriminants of DataSize start at 1: S8 = 1, S16 = 2, S32 = 3.
DataSizeBits_OneBased(s) == CASE s = "S8" -> 1 [] s = "S16" -> 2 [] s = "S32" -> 3

\* `$periph_size as u8`, `$mem_size as u8`
DataSizeBits(s) == CASE s = "S8" -> 0 [] s = "S16" -> 1 [] s = "S32" -> 2

\* `.bit(x as u8 != 0)`
BitOf(x) == IF x # 0 THEN 1 ELSE 0

\* `.bits(x)` on a two-bit field
Bits2(x) == x % 4

ChannelCfg ==
  [priority : Priority, circular : Circular, periph_incr : IncrMode,
   mem_incr : IncrMode, periph_size : DataSize, mem_size : DataSize]

\* (mutant) the two increment modes of the default exchanged.
ChannelCfgDefault_IncrSwapped ==
  [priority |-> "Medium", circular |-> "Disabled", periph_incr |-> "Enabled",
   mem_incr |-> "Disabled", periph_size |-> "S8", mem_size |-> "S8"]

ChannelCfgDefault ==
  [priority |-> "Medium", circular |-> "Disabled", periph_incr |-> "Disabled",
   mem_incr |-> "Enabled", periph_size |-> "S8", mem_size |-> "S8"]

(* ------------------------- the register file -------------------------- *)
\* The mode fields of a channel control register.
ModeFields == {"pl", "dir", "circ", "pinc", "minc", "psize", "msize"}

CcrReset ==
  [en |-> 0, mem2mem |-> 0, pl |-> 0, dir |-> 0, circ |-> 0, pinc |-> 0,
   minc |-> 0, psize |-> 0, msize |-> 0, teie |-> 0, htie |-> 0, tcie |-> 0]

NoFlags == [k \in DmaInterrupt |-> 0]
AllFlags == [k \in DmaInterrupt |-> 1]

VARIABLES
  ccr,      \* [DmaChannel -> control register, by field]
  cpar,     \* [DmaChannel -> peripheral address register]
  cmar,     \* [DmaChannel -> memory address register]
  cndtr,    \* [DmaChannel -> transfer count register]
  isr,      \* [DmaChannel -> [DmaInterrupt -> latched flag]]
  cselr,    \* [DmaChannel -> selector field of the shared CSELR]
  dmamux,   \* [DmaChannel -> request-line field of the channel's DMAMUX register]
  pending,  \* [DmaChannel -> the change of EN written and not yet applied:
            \*  "set", "clear" or "none"]
  latency,  \* whether this controller applies a change of EN after a delay
  faults,   \* whether a transfer can fail while a call is executing
  pc,       \* position of the software context
  call,     \* the call being executed (or the last one): operation and arguments
  originally_enabled, \* the local of enable_interrupt!
  entry,    \* the register file when the call was made
  trace,    \* the register accesses of the call, in order
  ncalls,   \* number of calls made
  requested, \* [DmaChannel -> the interrupt kinds enable_interrupt was called with]
  irq       \* the calls an interrupt handler has made, in order

regs == <<ccr, cpar, cmar, cndtr, isr, cselr, dmamux>>
vars == <<ccr, cpar, cmar, cndtr, isr, cselr, dmamux, pending, latency, faults, pc, call,
          originally_enabled, entry, trace, ncalls, requested, irq>>

Snapshot ==
  [ccr |-> ccr, cpar |-> cpar, cmar |-> cmar, cndtr |-> cndtr, isr |-> isr,
   cselr |-> cselr, dmamux |-> dmamux]

(* --------------------- the controller's write rules ------------------- *)
\* What a write of `new` to a control register holding `old` leaves in it.
\* EN = 1: every other field is read-only.  EN cannot go 0 -> 1 while the
\* transfer-error flag of the channel is latched.
HwCcrWrite(old, new, teif) ==
  LET en1 == IF old.en = 0 /\ new.en = 1 /\ teif = 1 THEN 0 ELSE new.en
  IN  IF old.en = 1 THEN [old EXCEPT !.en = en1] ELSE [new EXCEPT !.en = en1]

\* One access of the trace: `w` is the set of <<field, value>> the access
\* assigns (empty for a read), `en` the channel's enable bit as the access
\* finds it.
Access(acc, reg, ch, w) ==
  [acc |-> acc, reg |-> reg, ch |-> ch, w |-> w, en |-> ccr[ch].en]

Log(a) == trace' = Append(trace, a)

\* A poll of a busy-wait loop is logged once, however often it repeats.
LogPoll(a) ==
  trace' = IF Len(trace) > 0 /\ trace[Len(trace)] = a THEN trace
           ELSE Append(trace, a)


(* ------------------------- calls and their inputs --------------------- *)
NoCall ==
  [op |-> "none", ch |-> 1, periph_addr |-> 0, mem_addr |-> 0, num_data |-> 0,
   direction |-> "ReadFromPeriph", cfg |-> ChannelCfgDefault,
   interrupt_type |-> "TransferError", selection |-> 0]

Idle == pc \in {"idle", "done"}

\* A call is in progress.
InCall == pc \notin {"idle", "done", "panicked", "halted"}

\* A call is made: its arguments are recorded, the register file is
\* remembered and the access trace starts empty.
Enter(c, to) ==
  /\ Idle
  /\ ncalls < MaxCalls
  /\ ncalls' = ncalls + 1
  /\ call' = c
  /\ entry' = Snapshot
  /\ pc' = to

\* The control register of `ch` once the controller has applied the change
\* of EN that is pending on it.
Reflected(ch) ==
  HwCcrWrite(ccr[ch],
             [ccr[ch] EXCEPT !.en = IF pending[ch] = "set" THEN 1 ELSE 0],
             isr[ch]["TransferError"])

\* What the controller does to one channel, on its own, between two bus
\* transactions of the software: nothing, apply the change of EN that is
\* pending on the channel, or stop the channel on a transfer error.
HwEvents == {"none", "reflect", "error"}

\* What the controller can do between the bus read and the bus write of one
\* read-modify-write, channel by channel.  A transfer error needs a running
\* channel (one that runs, or runs once the pending change is applied).
HwBetween ==
  { h \in [DmaChannel -> HwEvents] :
      \A c \in DmaChannel :
        /\ h[c] = "reflect" => pending[c] # "none"
        /\ h[c] = "error" =>
             /\ faults
             /\ \/ ccr[c].en = 1
                \/ pending[c] # "none" /\ Reflected(c).en = 1 }

\* The control registers, the flags and the pending changes after the
\* controller has done `h`.
CcrAfter(h) ==
  [c \in DmaChannel |->
     CASE h[c] = "none" -> ccr[c]
       [] h[c] = "reflect" -> Reflected(c)
       [] h[c] = "error" -> [ccr[c] EXCEPT !.en = 0]]

IsrAfter(h) ==
  [c \in DmaChannel |->
     IF h[c] = "error" THEN [isr[c] EXCEPT !["TransferError"] = 1] ELSE isr[c]]

PendingAfter(h) ==
  [c \in DmaChannel |-> IF h[c] = "none" THEN pending[c] ELSE "none"]

\* The controller acts between the bus read and the bus write of a
\* read-modify-write of a register that is not a control register.
HwActsBetween ==
  \E h \in HwBetween :
     /\ ccr' = CcrAfter(h)
     /\ isr' = IsrAfter(h)
     /\ pending' = PendingAfter(h)

\* The controller, having done `h` since the bus read, takes a write of
\* `new` to the control register of `ch`.  A controller without latency
\* applies it at once.  One with latency applies the fields other than EN at
\* once and a change of EN later (HwReflect); the last write decides what is
\* pending.
HwCcrStore(ch, h, new) ==
  LET at == CcrAfter(h)[ch]
      teif == IsrAfter(h)[ch]["TransferError"]
  IN  /\ isr' = IsrAfter(h)
      /\ IF latency /\ new.en # at.en
            THEN /\ ccr' = [CcrAfter(h) EXCEPT ![ch] =
                              HwCcrWrite(at, [new EXCEPT !.en = at.en], teif)]
                 /\ pending' = [PendingAfter(h) EXCEPT ![ch] =
                                  IF new.en = 1 THEN "set" ELSE "clear"]
            ELSE /\ ccr' = [CcrAfter(h) EXCEPT ![ch] =
                              HwCcrWrite(at, new, teif)]
                 /\ pending' = [PendingAfter(h) EXCEPT ![ch] = "none"]

(* ------------------------------ cfg_channel --------------------------- *)
\* A write of an address or count register.  On an enabled channel the
\* hardware either takes the value or ignores the write.
WriteTransferReg(reg, ch, v) ==
  \E honoured \in (IF ccr[ch].en = 1 THEN BOOLEAN ELSE {TRUE}) :
     reg' = IF honoured THEN [reg EXCEPT ![ch] = v] ELSE reg

\* pub fn cfg_channel(&mut self, channel, periph_addr, mem_addr, num_data,
\*                    direction, cfg), to its first register access:
\* 1. cpar.write(|w| w.bits(periph_addr))
CfgChannel(channel, periph_addr, mem_addr, num_data, direction, cfg) ==
  /\ Enter([NoCall EXCEPT !.op = "cfg_channel", !.ch = channel,
                          !.periph_addr = periph_addr, !.mem_addr = mem_addr,
                          !.num_data = num_data, !.direction = direction,
                          !.cfg = cfg], "cfg_cmar")
  /\ WriteTransferReg(cpar, channel, periph_addr)
  /\ trace' = << Access("write", "cpar", channel, {<<"pa", periph_addr>>}) >>
  /\ UNCHANGED <<ccr, cmar, cndtr, isr, cselr, dmamux, originally_enabled,
                 pending, latency, faults, requested, irq>>

\* 2. cmar.write(|w| w.bits(mem_addr))
CfgWriteCmar ==
  /\ pc = "cfg_cmar"
  /\ WriteTransferReg(cmar, call.ch, call.mem_addr)
  /\ Log(Access("write", "cmar", call.ch, {<<"ma", call.mem_addr>>}))
  /\ pc' = "cfg_cndtr"
  /\ UNCHANGED <<ccr, cpar, cndtr, isr, cselr, dmamux, call,
                 originally_enabled, entry, ncalls, pending, latency, faults,
                 requested, irq>>

\* 3. cndtr.write(|w| w.ndt().bits(num_data))
CfgWriteCndtr ==
  /\ pc = "cfg_cndtr"
  /\ WriteTransferReg(cndtr, call.ch, call.num_data)
  /\ Log(Access("write", "cndtr", call.ch, {<<"ndt", call.num_data>>}))
  /\ pc' = "ccr_disable"
  /\ UNCHANGED <<ccr, cpar, cmar, isr, cselr, dmamux, call,
                 originally_enabled, entry, ncalls, pending, latency, faults,
                 requested, irq>>

\* (mutant) the arm of the last channel names the register of channel 1.
ModifyCcr_WrongArm(ch, new) ==
  LET t == IF ch = NumChannels THEN 1 ELSE ch
  IN  \E h \in HwBetween : HwCcrStore(t, h, new)

\* $ccr.modify(|r, w| ...): a bus read of the register, then a bus write of
\* `new`, the value read with the fields of `w` replaced (EN as it was read,
\* unless `w` names it).  Between the read and the write the controller may
\* act (HwBetween): apply a pending change of EN, or stop a channel on a
\* transfer error.  The hardware decides what the write leaves.
ModifyCcr(ch, new) ==
  \E h \in HwBetween : HwCcrStore(ch, h, new)

\* (mutant) the MEM2MEM bit is not cleared before circular mode is set.
AfterDisable_Skip == "ccr_write"

\* (mutant) the `if let Circular::Enabled` is dropped: MEM2MEM is cleared on
\* every call.
AfterDisable_Always == "ccr_mem2mem"

\* The position after the write that disables the channel.
AfterDisable == IF call.cfg.circular = "Enabled" THEN "ccr_mem2mem" ELSE "ccr_write"

\* set_ccr!: $ccr.modify(|_, w| w.en().clear_bit());
SetCcrDisable ==
  /\ pc = "ccr_disable"
  /\ ModifyCcr(call.ch, [ccr[call.ch] EXCEPT !.en = 0])
  /\ Log(Access("modify", "ccr", call.ch, {<<"en", 0>>}))
  /\ pc' = AfterDisable
  /\ UNCHANGED <<cpar, cmar, cndtr, cselr, dmamux, call,
                 originally_enabled, entry, ncalls, latency, faults, requested, irq>>

\* set_ccr!: if let Circular::Enabled = $circular { $ccr.modify(|_, w| w.mem2mem().clear_bit()); }
SetCcrClearMem2mem ==
  /\ pc = "ccr_mem2mem"
  /\ ModifyCcr(call.ch, [ccr[call.ch] EXCEPT !.mem2mem = 0])
  /\ Log(Access("modify", "ccr", call.ch, {<<"mem2mem", 0>>}))
  /\ pc' = "ccr_write"
  /\ UNCHANGED <<cpar, cmar, cndtr, cselr, dmamux, call,
                 originally_enabled, entry, ncalls, latency, faults, requested, irq>>

\* (mutant) the last closure of set_ccr! does not end in w.en().set_bit().
CcrFieldsWritten_NoEnable(direction, cfg) ==
  [pl |-> Bits2(PriorityBits(cfg.priority)),
   dir |-> BitOf(DirectionBits(direction)),
   circ |-> BitOf(CircularBits(cfg.circular)),
   pinc |-> BitOf(IncrModeBits(cfg.periph_incr)),
   minc |-> BitOf(IncrModeBits(cfg.mem_incr)),
   psize |-> Bits2(DataSizeBits(cfg.periph_size)),
   msize |-> Bits2(DataSizeBits(cfg.mem_size)),
   en |-> 0]

\* The fields the last closure of set_ccr! assigns, with their values.
CcrFieldsWritten(direction, cfg) ==
  [pl |-> Bits2(PriorityBits(cfg.priority)),
   dir |-> BitOf(DirectionBits(direction)),
   circ |-> BitOf(CircularBits(cfg.circular)),
   pinc |-> BitOf(IncrModeBits(cfg.periph_incr)),
   minc |-> BitOf(IncrModeBits(cfg.mem_incr)),
   psize |-> Bits2(DataSizeBits(cfg.periph_size)),
   msize |-> Bits2(DataSizeBits(cfg.mem_size)),
   en |-> 1]

\* (mutant) $periph_size goes to MSIZE and $mem_size to PSIZE.
CcrConfigured_SwapSizes(old, direction, cfg) ==
  [old EXCEPT !.pl = Bits2(PriorityBits(cfg.priority)),
              !.dir = BitOf(DirectionBits(direction)),
              !.circ = BitOf(CircularBits(cfg.circular)),
              !.pinc = BitOf(IncrModeBits(cfg.periph_incr)),
              !.minc = BitOf(IncrModeBits(cfg.mem_incr)),
              !.psize = Bits2(DataSizeBits(cfg.mem_size)),
              !.msize = Bits2(DataSizeBits(cfg.periph_size)),
              !.en = 1]

\* (mutant) $ccr.write(..) for $ccr.modify(..): the closure starts from the
\* reset value, not from the value read.
CcrConfigured_FromReset(old, direction, cfg) ==
  LET f == CcrFieldsWritten(direction, cfg)
  IN  [CcrReset EXCEPT !.pl = f.pl, !.dir = f.dir, !.circ = f.circ,
                       !.pinc = f.pinc, !.minc = f.minc, !.psize = f.psize,
                       !.msize = f.msize, !.en = f.en]

\* The register value the last closure of set_ccr! builds from the value read.
CcrConfigured(old, direction, cfg) ==
  LET f == CcrFieldsWritten(direction, cfg)
  IN  [old EXCEPT !.pl = f.pl, !.dir = f.dir, !.circ = f.circ, !.pinc = f.pinc,
                  !.minc = f.minc, !.psize = f.psize, !.msize = f.msize,
                  !.en = f.en]

\* set_ccr!: $ccr.modify(|_, w| unsafe { w.pl().bits(..); ... w.en().set_bit() });
\* the call returns.
SetCcrWrite ==
  /\ pc = "ccr_write"
  /\ ModifyCcr(call.ch, CcrConfigured(ccr[call.ch], call.direction, call.cfg))
  /\ LET f == CcrFieldsWritten(call.direction, call.cfg)
     IN  Log(Access("modify", "ccr", call.ch,
                    {<<n, f[n]>> : n \in DOMAIN f}))
  /\ pc' = "done"
  /\ UNCHANGED <<cpar, cmar, cndtr, cselr, dmamux, call,
                 originally_enabled, entry, ncalls, latency, faults, requested, irq>>

(* --------------------------------- stop ------------------------------- *)
\* (mutant) ccr.write(|w| w.en().clear_bit()): the register's reset value
\* is written instead of the value read with EN cleared.
Stop_Write(channel) ==
  /\ Enter([NoCall EXCEPT !.op = "stop", !.ch = channel], "done")
  /\ ModifyCcr(channel, CcrReset)
  /\ trace' = << Access("modify", "ccr", channel, {<<"en", 0>>}) >>
  /\ UNCHANGED <<cpar, cmar, cndtr, cselr, dmamux, originally_enabled,
                 latency, faults, requested, irq>>

\* pub fn stop(&mut self, channel): ccr.modify(|_, w| w.en().clear_bit())
Stop(channel) ==
  /\ Enter([NoCall EXCEPT !.op = "stop", !.ch = channel], "done")
  /\ ModifyCcr(channel, [ccr[channel] EXCEPT !.en = 0])
  /\ trace' = << Access("modify", "ccr", channel, {<<"en", 0>>}) >>
  /\ UNCHANGED <<cpar, cmar, cndtr, cselr, dmamux, originally_enabled,
                 latency, faults, requested, irq>>

(* ---------------------------- channel_select -------------------------- *)
\* (mutant) `if selection > 8`
MaxCsel_OffByOne == 7 + 1

\* The largest selection channel_select accepts.
MaxCsel == 7

\* (mutant) cselr.write(|w| w.cNs().bits(selection)): the selector fields of
\* the other channels get their reset value.
ChannelSelect_Write(channel, selection) ==
  /\ IF selection > MaxCsel
       THEN /\ Enter([NoCall EXCEPT !.op = "channel_select", !.ch = channel,
                                    !.selection = selection], "panicked")
            /\ trace' = << >>
            /\ UNCHANGED cselr
       ELSE /\ Enter([NoCall EXCEPT !.op = "channel_select", !.ch = channel,
                                    !.selection = selection], "done")
            /\ cselr' = [c \in DmaChannel |-> IF c = channel THEN selection ELSE 0]
            /\ trace' = << Access("modify", "cselr", channel, {<<"cs", selection>>}) >>
  /\ UNCHANGED <<ccr, cpar, cmar, cndtr, isr, dmamux, originally_enabled,
                 pending, latency, faults, requested, irq>>

\* pub fn channel_select(&mut self, channel, selection): panics when
\* selection > 7, else cselr.modify(|_, w| w.cNs().bits(selection)), a bus
\* read and a bus write between which the controller may act.
ChannelSelect(channel, selection) ==
  /\ IF selection > MaxCsel
       THEN /\ Enter([NoCall EXCEPT !.op = "channel_select", !.ch = channel,
                                    !.selection = selection], "panicked")
            /\ trace' = << >>
            /\ UNCHANGED <<cselr, ccr, isr, pending>>
       ELSE /\ Enter([NoCall EXCEPT !.op = "channel_select", !.ch = channel,
                                    !.selection = selection], "done")
            /\ cselr' = [cselr EXCEPT ![channel] = selection]
            /\ HwActsBetween
            /\ trace' = << Access("modify", "cselr", channel, {<<"cs", selection>>}) >>
  /\ UNCHANGED <<cpar, cmar, cndtr, dmamux, originally_enabled, latency,
                 faults, requested, irq>>

(* --------------------------------- mux -------------------------------- *)
\* The largest request line of the multiplexer (G4, Table 91).
MaxMuxInput == 115

\* What the 7-bit DMAREQ_ID field of a DMAMUX channel register holds after
\* `.dmareq_id().bits(selection)`: the unchecked setter keeps the low bits
\* of the u8 it is given.
DmareqIdBits(selection) == selection % 128

\* (mutant) the DMA register ccrN is taken for the DMAMUX register cNcr:
\* self.regs.ccrN.modify(|_, w| w.pl().bits(selection))
Mux_Ccr(channel, selection) ==
  /\ Enter([NoCall EXCEPT !.op = "mux", !.ch = channel,
                          !.selection = selection], "done")
  /\ ModifyCcr(channel, [ccr[channel] EXCEPT !.pl = Bits2(selection)])
  /\ trace' = << Access("modify", "ccr", channel, {<<"pl", Bits2(selection)>>}) >>
  /\ UNCHANGED <<cpar, cmar, cndtr, cselr, dmamux, originally_enabled,
                 latency, faults, requested, irq>>

\* pub fn mux(&mut self, channel, selection, mux):
\* mux.cNcr.modify(|_, w| w.dmareq_id().bits(selection)), with no check of
\* `selection`; the controller may act between the read and the write.
\* (channel_select exists on L4 only, mux on L5/G0/G4 only.)
Mux(channel, selection) ==
  /\ Enter([NoCall EXCEPT !.op = "mux", !.ch = channel,
                          !.selection = selection], "done")
  /\ dmamux' = [dmamux EXCEPT ![channel] = DmareqIdBits(selection)]
  /\ HwActsBetween
  /\ trace' = << Access("modify", "dmamux", channel,
                        {<<"dmareq_id", DmareqIdBits(selection)>>}) >>
  /\ UNCHANGED <<cpar, cmar, cndtr, cselr, originally_enabled, latency,
                 faults, requested, irq>>

(* --------------------------- enable_interrupt ------------------------- *)
\* pub fn enable_interrupt(&mut self, channel, interrupt_type), to its
\* first register access:
\* let originally_enabled = $ccr.read().en().bit_is_set();
EnableInterrupt(channel, interrupt_type) ==
  /\ Enter([NoCall EXCEPT !.op = "enable_interrupt", !.ch = channel,
                          !.interrupt_type = interrupt_type],
           IF ccr[channel].en = 1 THEN "ei_disable" ELSE "ei_set")
  /\ originally_enabled' = (ccr[channel].en = 1)
  /\ trace' = << Access("read", "ccr", channel, {}) >>
  /\ requested' = [requested EXCEPT ![channel] = @ \cup {interrupt_type}]
  /\ UNCHANGED <<regs, pending, latency, faults, irq>>

\* (mutant) the channel is disabled and the disable is not waited for.
EiDisable_NoPoll ==
  /\ pc = "ei_disable"
  /\ ModifyCcr(call.ch, [ccr[call.ch] EXCEPT !.en = 0])
  /\ Log(Access("modify", "ccr", call.ch, {<<"en", 0>>}))
  /\ pc' = "ei_set"
  /\ UNCHANGED <<cpar, cmar, cndtr, cselr, dmamux, call,
                 originally_enabled, entry, ncalls, latency, faults, requested, irq>>

\* if originally_enabled { $ccr.modify(|_, w| w.en().clear_bit()); ...
EiDisable ==
  /\ pc = "ei_disable"
  /\ ModifyCcr(call.ch, [ccr[call.ch] EXCEPT !.en = 0])
  /\ Log(Access("modify", "ccr", call.ch, {<<"en", 0>>}))
  /\ pc' = "ei_wait_disabled"
  /\ UNCHANGED <<cpar, cmar, cndtr, cselr, dmamux, call,
                 originally_enabled, entry, ncalls, latency, faults, requested, irq>>

\* (mutant) the first loop waits on the wrong value:
\* while $ccr.read().en().bit_is_clear() {}
EiWaitDisabled_Inverted ==
  /\ pc = "ei_wait_disabled"
  /\ LogPoll(Access("read", "ccr", call.ch, {}))
  /\ pc' = IF ccr[call.ch].en = 0 THEN "ei_wait_disabled" ELSE "ei_set"
  /\ UNCHANGED <<regs, call, originally_enabled, entry, ncalls, pending,
                 latency, faults, requested, irq>>

\* ... while $ccr.read().en().bit_is_set() {} }
EiWaitDisabled ==
  /\ pc = "ei_wait_disabled"
  /\ LogPoll(Access("read", "ccr", call.ch, {}))
  /\ pc' = IF ccr[call.ch].en = 1 THEN "ei_wait_disabled" ELSE "ei_set"
  /\ UNCHANGED <<regs, call, originally_enabled, entry, ncalls, pending,
                 latency, faults, requested, irq>>

\* (mutant) the arms of HalfTransfer and TransferComplete are exchanged.
InterruptField_Swapped(interrupt_type) ==
  CASE interrupt_type = "TransferError" -> "teie"
    [] interrupt_type = "HalfTransfer" -> "tcie"
    [] interrupt_type = "TransferComplete" -> "htie"

\* The interrupt-enable field of an interrupt type.
InterruptField(interrupt_type) ==
  CASE interrupt_type = "TransferError" -> "teie"
    [] interrupt_type = "HalfTransfer" -> "htie"
    [] interrupt_type = "TransferComplete" -> "tcie"

\* (mutant) the bit is inverted instead of set:
\* $ccr.modify(|r, w| w.teie().bit(!r.teie().bit()))
EiSetBit_Toggle ==
  /\ pc = "ei_set"
  /\ ModifyCcr(call.ch, [ccr[call.ch] EXCEPT ![InterruptField(call.interrupt_type)] = 1 - @])
  /\ Log(Access("modify", "ccr", call.ch, {<<InterruptField(call.interrupt_type), 1>>}))
  /\ pc' = IF originally_enabled THEN "ei_enable" ELSE "done"
  /\ UNCHANGED <<cpar, cmar, cndtr, cselr, dmamux, call,
                 originally_enabled, entry, ncalls, latency, faults, requested, irq>>

\* (mutant) the second `if originally_enabled` is dropped: the channel is
\* enabled whether it was enabled on entry or not.
EiSetBit_ThenEnable ==
  /\ pc = "ei_set"
  /\ ModifyCcr(call.ch, [ccr[call.ch] EXCEPT ![InterruptField(call.interrupt_type)] = 1])
  /\ Log(Access("modify", "ccr", call.ch, {<<InterruptField(call.interrupt_type), 1>>}))
  /\ pc' = "ei_enable"
  /\ UNCHANGED <<cpar, cmar, cndtr, cselr, dmamux, call,
                 originally_enabled, entry, ncalls, latency, faults, requested, irq>>

\* match $interrupt_type { TransferError => $ccr.modify(|_, w| w.teie().set_bit()), ... }
\* the call returns here when the channel was not enabled.
EiSetBit ==
  /\ pc = "ei_set"
  /\ ModifyCcr(call.ch, [ccr[call.ch] EXCEPT ![InterruptField(call.interrupt_type)] = 1])
  /\ Log(Access("modify", "ccr", call.ch, {<<InterruptField(call.interrupt_type), 1>>}))
  /\ pc' = IF originally_enabled THEN "ei_enable" ELSE "done"
  /\ UNCHANGED <<cpar, cmar, cndtr, cselr, dmamux, call,
                 originally_enabled, entry, ncalls, latency, faults, requested, irq>>

\* (mutant) the channel is not enabled again.
EiEnable_Forgotten ==
  /\ pc = "ei_enable"
  /\ pc' = "done"
  /\ UNCHANGED <<regs, call, originally_enabled, entry, trace, ncalls,
                 pending, latency, faults, requested, irq>>

\* if originally_enabled { $ccr.modify(|_, w| w.en().set_bit()); ...
EiEnable ==
  /\ pc = "ei_enable"
  /\ ModifyCcr(call.ch, [ccr[call.ch] EXCEPT !.en = 1])
  /\ Log(Access("modify", "ccr", call.ch, {<<"en", 1>>}))
  /\ pc' = "ei_wait_enabled"
  /\ UNCHANGED <<cpar, cmar, cndtr, cselr, dmamux, call,
                 originally_enabled, entry, ncalls, latency, faults, requested, irq>>

\* ... while $ccr.read().en().bit_is_clear() {} }; the call returns.
EiWaitEnabled ==
  /\ pc = "ei_wait_enabled"
  /\ LogPoll(Access("read", "ccr", call.ch, {}))
  /\ pc' = IF ccr[call.ch].en = 0 THEN "ei_wait_enabled" ELSE "done"
  /\ UNCHANGED <<regs, call, originally_enabled, entry, ncalls, pending,
                 latency, faults, requested, irq>>

(* ---------------------------- clear_interrupt ------------------------- *)
\* (mutant) every clear bit of the channel is set.
IfcrValue_WholeChannel(channel, interrupt_type) ==
  [c \in DmaChannel |-> [k \in DmaInterrupt |-> IF c = channel THEN 1 ELSE 0]]

\* (mutant) the arms of TransferError and TransferComplete exchanged:
\* cteifN for TransferComplete, ctcifN for TransferError.
IfcrValue_SwappedFlags(channel, interrupt_type) ==
  [c \in DmaChannel |-> [k \in DmaInterrupt |->
      IF c = channel /\ k = (CASE interrupt_type = "TransferError" -> "TransferComplete"
                               [] interrupt_type = "TransferComplete" -> "TransferError"
                               [] OTHER -> interrupt_type)
      THEN 1 ELSE 0]]

\* The value clear_interrupt writes to IFCR: `self.regs.ifcr.write(|w|
\* w.cteifN().set_bit())` starts from the reset value (all zero) and sets the
\* one bit of the channel and interrupt type.
IfcrValue(channel, interrupt_type) ==
  [c \in DmaChannel |-> [k \in DmaInterrupt |->
      IF c = channel /\ k = interrupt_type THEN 1 ELSE 0]]

\* The flags a write of `w` to IFCR leaves: a 1 clears the flag, a 0 leaves it.
HwIfcrWrite(flags, w) ==
  [c \in DmaChannel |-> [k \in DmaInterrupt |->
      IF w[c][k] = 1 THEN 0 ELSE flags[c][k]]]

\* pub fn clear_interrupt(&mut self, channel, interrupt_type)
ClearInterrupt(channel, interrupt_type) ==
  /\ Enter([NoCall EXCEPT !.op = "clear_interrupt", !.ch = channel,
                          !.interrupt_type = interrupt_type], "done")
  /\ isr' = HwIfcrWrite(isr, IfcrValue(channel, interrupt_type))
  /\ trace' = << Access("write", "ifcr", channel,
                        {<<InterruptField(interrupt_type), 1>>}) >>
  /\ UNCHANGED <<ccr, cpar, cmar, cndtr, cselr, dmamux, originally_enabled,
                 pending, latency, faults, requested, irq>>

(* ----------------------- a second execution context ------------------ *)
\* (mutant) every method takes `&self`.
Receiver_Shared(op) == "shared"

\* The receiver of each method of Dma: `&mut self` throughout (cfg_channel,
\* stop, channel_select, mux, enable_interrupt, clear_interrupt).
Receiver(op) == "mut"

\* A second context (an interrupt handler, which preempts the first between
\* two of its register accesses and runs to its end) can call method `op`
\* of the Dma when the borrow it needs is free.  Between two calls of the
\* first context it is.  While a call of the first context is in progress
\* that call holds the borrow of its receiver: a `&mut self` borrow excludes
\* every other borrow, and two `&self` borrows go together.
HandlerMayCall(op) ==
  InCall => (Receiver(op) = "shared" /\ Receiver(call.op) = "shared")

\* The interrupt handler calls stop(channel): the one modify of Dma::stop,
\* made by the second context.  `irq` keeps where the first context was.
IrqStop(channel) ==
  /\ Len(irq) < MaxHandlerCalls
  /\ pc \notin {"panicked", "halted"}
  /\ HandlerMayCall("stop")
  /\ ModifyCcr(channel, [ccr[channel] EXCEPT !.en = 0])
  /\ irq' = Append(irq, [op |-> "stop", ch |-> channel, in_call |-> InCall,
                         ncalls |-> ncalls])
  /\ pc' = IF pc = "done" THEN "idle" ELSE pc
  /\ UNCHANGED <<cpar, cmar, cndtr, cselr, dmamux, call, originally_enabled,
                 entry, trace, ncalls, latency, faults, requested>>

(* ------------------------------ the hardware -------------------------- *)
\* A transfer error on an enabled channel: the hardware clears EN and
\* latches TEIF.
HwTransferError(ch) ==
  /\ InCall => faults
  /\ ccr[ch].en = 1
  /\ ccr' = [ccr EXCEPT ![ch].en = 0]
  /\ isr' = [isr EXCEPT ![ch]["TransferError"] = 1]
  /\ pending' = [pending EXCEPT ![ch] = "none"]
  /\ pc' = CASE pc = "done" -> "idle" [] pc = "panicked" -> "halted" [] OTHER -> pc
  /\ UNCHANGED <<cpar, cmar, cndtr, cselr, dmamux, call, originally_enabled,
                 entry, trace, ncalls, latency, faults, requested, irq>>

\* The controller applies the change of EN that is pending on a channel.
HwReflect(ch) ==
  /\ pending[ch] # "none"
  /\ ccr' = [ccr EXCEPT ![ch] = Reflected(ch)]
  /\ pending' = [pending EXCEPT ![ch] = "none"]
  /\ UNCHANGED <<cpar, cmar, cndtr, isr, cselr, dmamux, latency, faults, pc, call,
                 originally_enabled, entry, trace, ncalls, requested, irq>>

(* ------------------------ initial states, inputs ---------------------- *)
\* Dma::new enables the controller's clock.  On F3 it does not reset the
\* block, so a channel starts in whatever state it was left in; elsewhere
\* rcc_en_reset! resets the block and every channel starts in the reset
\* state.  A channel starts in one of these states:
\*   - the reset state;
\*   - a running memory-to-memory transfer with the error interrupt on;
\*   - stopped after a transfer error in circular mode, all flags latched.
InitChannel ==
  << [ccr |-> CcrReset, cpar |-> 0, cmar |-> 0, cndtr |-> 0, isr |-> NoFlags],
     [ccr |-> [CcrReset EXCEPT !.en = 1, !.mem2mem = 1, !.pl = 3, !.dir = 1,
                               !.pinc = 1, !.minc = 1, !.psize = 2, !.msize = 2,
                               !.teie = 1],
      cpar |-> 536875008, cmar |-> 536879104, cndtr |-> 8, isr |-> NoFlags],
     [ccr |-> [CcrReset EXCEPT !.circ = 1, !.pl = 2, !.minc = 1, !.psize = 1,
                               !.msize = 1, !.htie = 1, !.tcie = 1],
      cpar |-> 1073821708, cmar |-> 536870916, cndtr |-> 4, isr |-> AllFlags] >>

\* The initial register files: channel c starts in state ((c + k) mod 3) of
\* InitChannel, for each shift k, so that every channel starts in every state;
\* the file with every channel stopped and every flag latched; and the file
\* with every channel in the reset state, which is what Dma::new leaves where
\* it resets the block (rcc_en_reset!) and on F3 after power-on.
InitFiles ==
  { [c \in DmaChannel |-> InitChannel[((c + k) % Len(InitChannel)) + 1]] :
      k \in 1..Len(InitChannel) }
  \cup { [c \in DmaChannel |-> InitChannel[3]] }
  \cup { [c \in DmaChannel |-> InitChannel[1]] }

InitRegs(f) ==
  /\ ccr = [c \in DmaChannel |-> f[c].ccr]
  /\ cpar = [c \in DmaChannel |-> f[c].cpar]
  /\ cmar = [c \in DmaChannel |-> f[c].cmar]
  /\ cndtr = [c \in DmaChannel |-> f[c].cndtr]
  /\ isr = [c \in DmaChannel |-> f[c].isr]
  /\ cselr = [c \in DmaChannel |-> 0]
  /\ dmamux = [c \in DmaChannel |-> 0]

InitState ==
  /\ \E f \in InitFiles : InitRegs(f)
  /\ pending = [c \in DmaChannel |-> "none"]
  /\ pc = "idle"
  /\ call = NoCall
  /\ originally_enabled = FALSE
  /\ entry = Snapshot
  /\ trace = << >>
  /\ ncalls = 0
  /\ requested = [c \in DmaChannel |-> {}]
  /\ irq = << >>

\* The controller of Spec and SpecCfg applies every write at once; a
\* transfer can fail at any time.
Init == InitState /\ latency = FALSE /\ faults = TRUE

\* the cfg_channel calls of Spec: <<periph_addr, mem_addr, num_data,
\* direction, cfg>>
CfgCallSamples ==
  { <<1073821700, 536870912, 16, "ReadFromPeriph", ChannelCfgDefault>>,
    <<1073759236, 536871168, 65535, "ReadFromMem",
      [priority |-> "High", circular |-> "Enabled", periph_incr |-> "Enabled",
       mem_incr |-> "Disabled", periph_size |-> "S16", mem_size |-> "S32"]>> }

\* the selections of the calls of Spec (a u8); every selector field starts
\* at 0
SelectionSamples == {5, 7, 8}

\* the selections of the mux calls of Spec (a u8): the largest MuxInput of
\* the source, the first value past the multiplexer's range, and a value
\* wider than the field
MuxSelectionSamples == {39, MaxMuxInput + 1, 200}

\* the steps of the call in progress
Step ==
  \/ CfgWriteCmar
  \/ CfgWriteCndtr
  \/ SetCcrDisable
  \/ SetCcrClearMem2mem
  \/ SetCcrWrite
  \/ EiDisable
  \/ EiWaitDisabled
  \/ EiSetBit
  \/ EiEnable
  \/ EiWaitEnabled

Next ==
  \/ \E ch \in DmaChannel, a \in CfgCallSamples :
        CfgChannel(ch, a[1], a[2], a[3], a[4], a[5])
  \/ \E ch \in DmaChannel : Stop(ch)
  \/ \E ch \in DmaChannel, s \in SelectionSamples : ChannelSelect(ch, s)
  \/ \E ch \in DmaChannel, s \in MuxSelectionSamples : Mux(ch, s)
  \/ \E ch \in DmaChannel, k \in DmaInterrupt : EnableInterrupt(ch, k)
  \/ \E ch \in DmaChannel, k \in DmaInterrupt : ClearInterrupt(ch, k)
  \/ Step
  \/ \E ch \in DmaChannel : HwTransferError(ch)

Spec == Init /\ [][Next]_vars

(* One cfg_channel call, with every configuration, from each initial state. *)
TransferSamples ==
  { <<1073821700, 536870912, 16>>, <<1073759236, 536871168, 65535>> }

NextCfg ==
  \/ /\ ncalls = 0
     /\ \E ch \in DmaChannel, t \in TransferSamples, d \in Direction, cfg \in ChannelCfg :
           CfgChannel(ch, t[1], t[2], t[3], d, cfg)
  \/ CfgWriteCmar
  \/ CfgWriteCndtr
  \/ SetCcrDisable
  \/ SetCcrClearMem2mem
  \/ SetCcrWrite
  \/ \E ch \in DmaChannel : HwTransferError(ch)

SpecCfg == Init /\ [][NextCfg]_vars

(* Calls of enable_interrupt only, on a controller with or without latency.  *)
(* The software context keeps running, the controller applies every pending *)
(* change of EN in the end, and no transfer error is raised during a call.  *)
InitEi == InitState /\ latency \in BOOLEAN /\ faults = FALSE

NextEi ==
  \/ \E ch \in DmaChannel, k \in DmaInterrupt : EnableInterrupt(ch, k)
  \/ EiDisable
  \/ EiWaitDisabled
  \/ EiSetBit
  \/ EiEnable
  \/ EiWaitEnabled
  \/ \E ch \in DmaChannel : HwReflect(ch)
  \/ \E ch \in DmaChannel : HwTransferError(ch)

SpecEi ==
  /\ InitEi
  /\ [][NextEi]_vars
  /\ WF_vars(Step)
  /\ \A ch \in DmaChannel : WF_vars(HwReflect(ch))

(* The multi-access calls (cfg_channel, enable_interrupt) made by the first *)
(* context, with an interrupt handler that calls stop.                      *)
\* The calls of the first context: cfg_channel with circular mode (its
\* control-register phase then has all three updates) and enable_interrupt
\* of one kind.
IrqCfgSamples == {a \in CfgCallSamples : a[5].circular = "Enabled"}
IrqInterruptSamples == {"HalfTransfer"}

NextIrq ==
  \/ \E ch \in DmaChannel, a \in IrqCfgSamples :
        CfgChannel(ch, a[1], a[2], a[3], a[4], a[5])
  \/ \E ch \in DmaChannel, k \in IrqInterruptSamples : EnableInterrupt(ch, k)
  \/ Step
  \/ \E ch \in DmaChannel : IrqStop(ch)
  \/ \E ch \in DmaChannel : HwTransferError(ch)

SpecIrq == Init /\ [][NextIrq]_vars

(* =============================== claims =============================== *)
\* The state a call of `op` returned into.
AtReturn(op) == pc = "done" /\ call.op = op

\* The accesses of the trace that assign field `f`, and those that assign
\* it the value v.
Assigns(a, f) == \E x \in a.w : x[1] = f
AssignsValue(a, f, v) == <<f, v>> \in a.w

\* An access that writes an address, the count or a mode field.
ConfigAccess(a) ==
  \/ a.reg \in {"cpar", "cmar", "cndtr"}
  \/ \E f \in ModeFields \cup {"mem2mem"} : Assigns(a, f)

\* C1: cfg_channel never writes the peripheral address, the memory address,
\* the transfer count or a mode field of a channel whose enable bit is 1; on
\* a channel that is enabled on entry the write that clears EN comes before
\* every such write.
C1_ConfigOnlyWhileDisabled ==
  call.op = "cfg_channel" =>
    \A i \in 1..Len(trace) :
      ConfigAccess(trace[i]) =>
        /\ trace[i].en = 0
        /\ entry.ccr[call.ch].en = 1 =>
             \E j \in 1..(i - 1) : AssignsValue(trace[j], "en", 0)

\* What a read-back of the control register decodes to (the register-level
\* table of the fields).
PriorityRead(b) ==
  CASE b = 0 -> "Low" [] b = 1 -> "Medium" [] b = 2 -> "High" [] b = 3 -> "VeryHigh"
DirectionRead(b) == IF b = 0 THEN "ReadFromPeriph" ELSE "ReadFromMem"
FlagRead(b) == IF b = 0 THEN "Disabled" ELSE "Enabled"
DataSizeRead(b) ==
  CASE b = 0 -> "S8" [] b = 1 -> "S16" [] b = 2 -> "S32" [] OTHER -> "reserved"

ReadBackMatches ==
  LET r == ccr[call.ch]
  IN  /\ PriorityRead(r.pl) = call.cfg.priority
      /\ DirectionRead(r.dir) = call.direction
      /\ FlagRead(r.circ) = call.cfg.circular
      /\ FlagRead(r.pinc) = call.cfg.periph_incr
      /\ FlagRead(r.minc) = call.cfg.mem_incr
      /\ DataSizeRead(r.psize) = call.cfg.periph_size
      /\ DataSizeRead(r.msize) = call.cfg.mem_size

\* C2 as stated: after cfg_channel returns, the control register reads back
\* the priority, direction, circular flag, increment flags and data widths
\* passed in, and EN = 1.
C2_ReadBackEnabled ==
  AtReturn("cfg_channel") => ReadBackMatches /\ ccr[call.ch].en = 1

\* C2 as amended: after cfg_channel returns, the control register reads back
\* the mode fields passed in; EN reads 1 when the channel's transfer-error
\* flag is not latched, and 0 when it is.
C2_ReadBack ==
  AtReturn("cfg_channel") =>
    /\ ReadBackMatches
    /\ ccr[call.ch].en = IF isr[call.ch]["TransferError"] = 0 THEN 1 ELSE 0

C2_Witness ==
  /\ AtReturn("cfg_channel")
  /\ entry.ccr[call.ch].en = 1
  /\ call.cfg.priority = "VeryHigh"
  /\ call.cfg.circular = "Enabled"
  /\ call.cfg.periph_size = "S16"
  /\ call.cfg.mem_size = "S32"
  /\ call.direction = "ReadFromMem"
  /\ ccr[call.ch].en = 1

\* C3: after cfg_channel returns, the peripheral-address, memory-address and
\* count registers of the channel hold the values passed in, whether the
\* channel was enabled on entry or not.
C3_TransferRegsSet ==
  AtReturn("cfg_channel") =>
    /\ cpar[call.ch] = call.periph_addr
    /\ cmar[call.ch] = call.mem_addr
    /\ cndtr[call.ch] = call.num_data

\* C4: in cfg_channel the write that sets EN is the last register write, it
\* happens once, after the writes of the peripheral address, the memory
\* address and the count; the mode fields are written in one update, made
\* while EN is 0.
C4_EnableLast ==
  call.op = "cfg_channel" =>
    LET n == Len(trace)
        sets == {i \in 1..n : AssignsValue(trace[i], "en", 1)}
        modes == {i \in 1..n : \E f \in ModeFields : Assigns(trace[i], f)}
    IN  /\ InCall => sets = {} /\ modes = {}
        /\ pc = "done" =>
             /\ sets = {n}
             /\ \A r \in {"cpar", "cmar", "cndtr"} :
                  \E i \in 1..(n - 1) : trace[i].reg = r /\ trace[i].acc = "write"
             /\ modes = {n}
             /\ \A f \in ModeFields : Assigns(trace[n], f)
             /\ trace[n].en = 0

C4_Witness ==
  /\ AtReturn("cfg_channel")
  /\ entry.ccr[call.ch].en = 1
  /\ call.cfg.circular = "Enabled"
  /\ Len(trace) = 6
  /\ ccr[call.ch].en = 1

\* C5: no control register ever holds CIRC = 1 and MEM2MEM = 1 together; a
\* cfg_channel call with circular mode writes MEM2MEM = 0 before it writes
\* CIRC = 1.
C5_NeverCircAndMem2mem ==
  /\ \A c \in DmaChannel : ~(ccr[c].circ = 1 /\ ccr[c].mem2mem = 1)
  /\ AtReturn("cfg_channel") /\ call.cfg.circular = "Enabled" =>
       \E j \in 1..Len(trace) :
         /\ AssignsValue(trace[j], "circ", 1)
         /\ \E i \in 1..(j - 1) : AssignsValue(trace[i], "mem2mem", 0)
         /\ \A i \in 1..(j - 1) : ~Assigns(trace[i], "circ")

C5_Witness ==
  /\ AtReturn("cfg_channel")
  /\ call.cfg.circular = "Enabled"
  /\ entry.ccr[call.ch].mem2mem = 1
  /\ ccr[call.ch].circ = 1
  /\ ccr[call.ch].mem2mem = 0

\* C6: enable_interrupt returns with the channel's enable bit as it found it.
C6_RunStatePreserved ==
  AtReturn("enable_interrupt") => ccr[call.ch].en = entry.ccr[call.ch].en

C6_Witness ==
  /\ AtReturn("enable_interrupt")
  /\ entry.ccr[call.ch].en = 1
  /\ ccr[call.ch].en = 1

\* C7: enable_interrupt sets the interrupt-enable bit of the requested kind
\* (TEIE, HTIE, TCIE); the other two interrupt-enable bits, the mode fields
\* and the address and count registers are as on entry.
C7_OnlyRequestedBit ==
  AtReturn("enable_interrupt") =>
    LET r == ccr[call.ch]
        e == entry.ccr[call.ch]
        k == call.interrupt_type
    IN  /\ k = "TransferError" => r.teie = 1 /\ r.htie = e.htie /\ r.tcie = e.tcie
        /\ k = "HalfTransfer" => r.htie = 1 /\ r.teie = e.teie /\ r.tcie = e.tcie
        /\ k = "TransferComplete" => r.tcie = 1 /\ r.teie = e.teie /\ r.htie = e.htie
        /\ \A f \in ModeFields \cup {"mem2mem"} : r[f] = e[f]
        /\ cpar[call.ch] = entry.cpar[call.ch]
        /\ cmar[call.ch] = entry.cmar[call.ch]
        /\ cndtr[call.ch] = entry.cndtr[call.ch]

C7_Witness ==
  /\ AtReturn("enable_interrupt")
  /\ call.interrupt_type = "HalfTransfer"
  /\ entry.ccr[call.ch].en = 1
  /\ entry.ccr[call.ch].teie = 1
  /\ entry.ccr[call.ch].htie = 0
  /\ ccr[call.ch].htie = 1

\* The interrupt-enable fields.
EnableFields == {"teie", "htie", "tcie"}

\* C8: on a channel enabled on entry enable_interrupt writes EN = 0, polls
\* until EN reads 0, writes the interrupt-enable bit, writes EN = 1 and polls
\* until EN reads 1; on a channel disabled on entry it writes the
\* interrupt-enable bit and writes nothing else.  The interrupt-enable bit
\* is only ever written with EN reading 0.
C8_DisableSetEnable ==
  call.op = "enable_interrupt" =>
    LET n == Len(trace)
        writes == {i \in 1..n : trace[i].acc # "read"}
    IN  /\ \A i \in writes :
             (\E f \in EnableFields : Assigns(trace[i], f)) => trace[i].en = 0
        /\ pc = "done" /\ entry.ccr[call.ch].en = 0 =>
             /\ writes = {n}
             /\ Cardinality(trace[n].w) = 1
             /\ \E f \in EnableFields : AssignsValue(trace[n], f, 1)
        /\ pc = "done" /\ entry.ccr[call.ch].en = 1 =>
             \E i, j, k \in writes :
               /\ i < j /\ j < k /\ writes = {i, j, k}
               /\ trace[i].w = {<<"en", 0>>}
               /\ j > i + 1 /\ trace[j - 1].acc = "read" /\ trace[j - 1].en = 0
               /\ Cardinality(trace[j].w) = 1
               /\ \E f \in EnableFields : AssignsValue(trace[j], f, 1)
               /\ k = j + 1
               /\ trace[k].w = {<<"en", 1>>}
               /\ n > k /\ trace[n].acc = "read" /\ trace[n].en = 1

C8_Witness ==
  /\ AtReturn("enable_interrupt")
  /\ entry.ccr[call.ch].en = 1
  /\ Len(trace) = 6
  /\ trace[4].w = {<<"tcie", 1>>}

\* C9: clear_interrupt(C, K) clears the flag K of channel C and leaves every
\* other flag, of another channel or of another kind, as it was.
C9_ClearsOneFlag ==
  AtReturn("clear_interrupt") =>
    \A c \in DmaChannel, k \in DmaInterrupt :
      isr[c][k] = IF c = call.ch /\ k = call.interrupt_type THEN 0
                  ELSE entry.isr[c][k]

C9_Witness ==
  /\ AtReturn("clear_interrupt")
  /\ call.interrupt_type = "HalfTransfer"
  /\ \A c \in DmaChannel, k \in DmaInterrupt : entry.isr[c][k] = 1
  /\ isr[call.ch]["HalfTransfer"] = 0

\* C10: channel_select with a selection above 7 panics and has written no
\* register: the selector register and every other register are as before.
C10_RejectsAbove7 ==
  call.op = "channel_select" /\ call.selection > 7 =>
    /\ pc \in {"panicked", "halted"}
    /\ cselr = entry.cselr
    /\ pc = "panicked" => Snapshot = entry /\ trace = << >>

C10_Witness ==
  /\ pc = "panicked"
  /\ call.op = "channel_select"
  /\ call.selection = 8

\* C11: a mux call whose selection exceeds the multiplexer's request-line
\* range is rejected before any register write: the call panics, its trace is
\* empty and the request-line field keeps its value.
C11_MuxRejectsOutOfRange ==
  (call.op = "mux" /\ pc \in {"done", "panicked"}
     /\ call.selection > MaxMuxInput) =>
    /\ pc = "panicked"
    /\ trace = << >>
    /\ dmamux = entry.dmamux

\* C12: no polling loop runs forever: a call in progress always has a step
\* that moves it on (a poll that reads the awaited value, or one that gives
\* up and reports); it is never left with only a poll that reads the same
\* value again.
C12_PollingEnds == InCall => ENABLED <<Step>>_vars

\* C13: while a channel's transfer-error flag is latched its enable bit is 0,
\* whatever stop, cfg_channel or enable_interrupt do; the only step that
\* un-latches the flag of channel c is clear_interrupt(c, TransferError); and
\* a cfg_channel call that returns with the flag not latched leaves the
\* channel enabled.
C13_ErrorLatch ==
  [][ /\ \A c \in DmaChannel :
           /\ isr[c]["TransferError"] = 1 => ccr[c].en = 0
           /\ isr'[c]["TransferError"] = 1 => ccr'[c].en = 0
           /\ (isr[c]["TransferError"] = 1 /\ isr'[c]["TransferError"] = 0) =>
                 /\ ncalls' = ncalls + 1
                 /\ call'.op = "clear_interrupt"
                 /\ call'.ch = c
                 /\ call'.interrupt_type = "TransferError"
      /\ (pc' = "done" /\ call'.op = "cfg_channel"
            /\ isr'[call'.ch]["TransferError"] = 0) => ccr'[call'.ch].en = 1
    ]_vars

\* A cfg_channel call has returned and enabled a channel whose transfer-error
\* flag had been latched and then cleared by clear_interrupt (the other two
\* flags are still latched).
C13_Witness ==
  /\ AtReturn("cfg_channel")
  /\ entry.isr[call.ch] = [AllFlags EXCEPT !["TransferError"] = 0]
  /\ entry.ccr[call.ch].en = 0
  /\ ccr[call.ch].en = 1

\* The channels on which the controller has latched a transfer error since
\* the call was made.
FaultedSince ==
  {c \in DmaChannel :
     entry.isr[c]["TransferError"] = 0 /\ isr[c]["TransferError"] = 1}

\* The register file `f` after the controller has stopped the channels of E
\* on a transfer error: EN cleared, TEIF latched.
AfterFaults(f, E) ==
  [f EXCEPT
     !.ccr = [c \in DmaChannel |->
                IF c \in E THEN [f.ccr[c] EXCEPT !.en = 0] ELSE f.ccr[c]],
     !.isr = [c \in DmaChannel |->
                IF c \in E THEN [f.isr[c] EXCEPT !["TransferError"] = 1]
                ELSE f.isr[c]]]

\* C14: stop(channel) makes one register access, an update of the channel's
\* control register that clears EN; it reads and polls nothing.  When it
\* returns every register holds the value it had when stop was called, except
\* the EN bit of the channel, which is 0, and except what the controller did
\* by itself during the call (a transfer error on a channel that was
\* running); on a channel that was already disabled stop has changed
\* nothing.
C14_StopClearsOnlyEnable ==
  AtReturn("stop") =>
    /\ trace = << [acc |-> "modify", reg |-> "ccr", ch |-> call.ch,
                   w |-> {<<"en", 0>>}, en |-> entry.ccr[call.ch].en] >>
    /\ \A c \in FaultedSince : entry.ccr[c].en = 1
    /\ Snapshot = [AfterFaults(entry, FaultedSince) EXCEPT !.ccr[call.ch].en = 0]
    /\ entry.ccr[call.ch].en = 0 => Snapshot = AfterFaults(entry, FaultedSince)
    /\ FaultedSince = {} => Snapshot = [entry EXCEPT !.ccr[call.ch].en = 0]

\* stop has returned on a channel that was running with its mode fields and
\* an interrupt-enable bit set.
C14_Witness ==
  /\ AtReturn("stop")
  /\ entry.ccr[call.ch].en = 1
  /\ entry.ccr[call.ch].teie = 1
  /\ entry.ccr[call.ch].pl = 3
  /\ ccr[call.ch].en = 0

PriorityTable == [Low |-> 0, Medium |-> 1, High |-> 2, VeryHigh |-> 3]
DirectionTable == [ReadFromPeriph |-> 0, ReadFromMem |-> 1]
FlagTable == [Disabled |-> 0, Enabled |-> 1]
DataSizeTable == [S8 |-> 0, S16 |-> 1, S32 |-> 2]

\* C16: the write of cfg_channel that sets the mode fields assigns each field
\* the bit pattern the register-level table gives for the value passed in,
\* and no access of the call assigns 3 (binary 11) to a data-size field.
C16_BitPatterns ==
  AtReturn("cfg_channel") =>
    /\ LET a == trace[Len(trace)]
       IN  /\ AssignsValue(a, "pl", PriorityTable[call.cfg.priority])
           /\ AssignsValue(a, "dir", DirectionTable[call.direction])
           /\ AssignsValue(a, "circ", FlagTable[call.cfg.circular])
           /\ AssignsValue(a, "pinc", FlagTable[call.cfg.periph_incr])
           /\ AssignsValue(a, "minc", FlagTable[call.cfg.mem_incr])
           /\ AssignsValue(a, "psize", DataSizeTable[call.cfg.periph_size])
           /\ AssignsValue(a, "msize", DataSizeTable[call.cfg.mem_size])
           /\ \A f \in ModeFields : Cardinality({x \in a.w : x[1] = f}) = 1
    /\ \A i \in 1..Len(trace) :
          ~ AssignsValue(trace[i], "psize", 3) /\ ~ AssignsValue(trace[i], "msize", 3)

\* cfg_channel has returned from a call with the largest value of each
\* two-bit field: priority VeryHigh written as 3, size S32 written as 2.
C16_Witness ==
  /\ AtReturn("cfg_channel")
  /\ call.cfg.priority = "VeryHigh"
  /\ call.cfg.periph_size = "S32"
  /\ call.cfg.mem_size = "S16"
  /\ call.direction = "ReadFromMem"
  /\ AssignsValue(trace[Len(trace)], "pl", 3)
  /\ AssignsValue(trace[Len(trace)], "psize", 2)
  /\ AssignsValue(trace[Len(trace)], "msize", 1)

\* C17: channel_select(C, s) with s <= 7 returns with the selector field of
\* channel C equal to s and the selector field of every other channel as it
\* was when the call was made.
C17_SelectSetsOneField ==
  (call.op = "channel_select" /\ pc \in {"done", "panicked"}
     /\ call.selection <= 7) =>
    /\ pc = "done"
    /\ cselr = [entry.cselr EXCEPT ![call.ch] = call.selection]

\* channel_select has returned from a call with the boundary value 7, made
\* when the field of another channel held 5.
C17_Witness ==
  /\ AtReturn("channel_select")
  /\ call.selection = 7
  /\ cselr[call.ch] = 7
  /\ \E c \in DmaChannel \ {call.ch} : entry.cselr[c] = 5 /\ cselr[c] = 5

\* C18: channel_select, mux and clear_interrupt return (or panic) with the
\* control register of every channel, and every address and count register,
\* as they were when the call was made; the one difference there can be is
\* the EN bit of a running channel that the controller stopped on a transfer
\* error during the call.
C18_RoutingKeepsControlState ==
  (call.op \in {"channel_select", "mux", "clear_interrupt"}
     /\ pc \in {"done", "panicked"}) =>
    /\ \A c \in FaultedSince : entry.ccr[c].en = 1
    /\ ccr = AfterFaults(entry, FaultedSince).ccr
    /\ FaultedSince = {} => ccr = entry.ccr
    /\ cpar = entry.cpar
    /\ cmar = entry.cmar
    /\ cndtr = entry.cndtr

\* mux has returned from a call on a running channel: the request line is
\* set and the channel is still enabled.
C18_Witness ==
  /\ AtReturn("mux")
  /\ entry.ccr[call.ch].en = 1
  /\ entry.dmamux[call.ch] = 0
  /\ dmamux[call.ch] = 39
  /\ ccr[call.ch].en = 1

\* C19: every register access of cfg_channel, stop and enable_interrupt is an
\* access of the control, peripheral-address, memory-address or count
\* register of the channel the call was made for, and no step of such a call
\* changes one of these registers of another channel (the enable bit of
\* another channel in particular); what changes on another channel is the
\* EN bit the controller clears when it stops that channel on a transfer
\* error.
C19_ChannelIsolation ==
  [][ call'.op \in {"cfg_channel", "stop", "enable_interrupt"} =>
        /\ \A i \in 1..Len(trace') :
              /\ trace'[i].ch = call'.ch
              /\ trace'[i].reg \in {"ccr", "cpar", "cmar", "cndtr"}
        /\ \A c \in DmaChannel \ {call'.ch} :
              /\ ccr'[c] = IF /\ isr[c]["TransferError"] = 0
                              /\ isr'[c]["TransferError"] = 1
                             THEN [ccr[c] EXCEPT !.en = 0] ELSE ccr[c]
              /\ cpar'[c] = cpar[c]
              /\ cmar'[c] = cmar[c]
              /\ cndtr'[c] = cndtr[c]
    ]_vars

\* cfg_channel has returned having configured and enabled its channel, while
\* another channel is running with the registers it had when the call was
\* made.
C19_Witness ==
  /\ AtReturn("cfg_channel")
  /\ entry.ccr[call.ch].en = 0
  /\ ccr[call.ch].en = 1
  /\ cpar[call.ch] = call.periph_addr
  /\ \E c \in DmaChannel \ {call.ch} :
        /\ entry.ccr[c].en = 1
        /\ ccr[c] = entry.ccr[c]
        /\ cpar[c] = entry.cpar[c] /\ cmar[c] = entry.cmar[c]
        /\ cndtr[c] = entry.cndtr[c]

\* C20: an interrupt-enable bit that is 1 is still 1 after every step:
\* no call (cfg_channel, stop, enable_interrupt, clear_interrupt,
\* channel_select, mux) and no hardware event clears TEIE, HTIE or TCIE.
C20_InterruptEnablesStay ==
  [][ \A c \in DmaChannel : \A f \in EnableFields :
         ccr[c][f] = 1 => ccr'[c][f] = 1 ]_vars

\* cfg_channel has returned from reconfiguring a channel whose HTIE bit had
\* been set by an earlier enable_interrupt call: the bit is still set.
C20_Witness ==
  /\ AtReturn("cfg_channel")
  /\ ncalls = 2
  /\ entry.ccr[call.ch].htie = 1
  /\ entry.ccr[call.ch].tcie = 0
  /\ ccr[call.ch].htie = 1
  /\ ccr[call.ch].pl = PriorityBits(call.cfg.priority)
  /\ ccr[call.ch].pl # entry.ccr[call.ch].pl

\* C21: only cfg_channel takes a channel from disabled to enabled across a
\* call: a channel whose enable bit was 0 when a stop, enable_interrupt,
\* clear_interrupt, channel_select or mux call was made, or when a
\* cfg_channel call for another channel was made, has its enable bit 0 during
\* that call and after it, until the next call.
C21_OnlyCfgEnables ==
  \A c \in DmaChannel :
    (call.op # "none" /\ ~ (call.op = "cfg_channel" /\ call.ch = c)
       /\ entry.ccr[c].en = 0) => ccr[c].en = 0

\* enable_interrupt has returned on a channel that was disabled, with no
\* transfer error latched, when the call was made: the interrupt-enable bit
\* is set and the channel is still disabled.
C21_Witness ==
  /\ AtReturn("enable_interrupt")
  /\ entry.ccr[call.ch].en = 0
  /\ isr[call.ch]["TransferError"] = 0
  /\ ccr[call.ch].tcie = 1
  /\ ccr[call.ch].en = 0

\* C22: cfg_channel called with circular disabled returns with the MEM2MEM
\* bit of the channel as it was when the call was made, called with circular
\* enabled it returns with MEM2MEM = 0; and no step of any call sets a
\* MEM2MEM bit that is 0.
C22_Mem2memOnlyCleared ==
  [][ /\ \A c \in DmaChannel : ccr[c].mem2mem = 0 => ccr'[c].mem2mem = 0
      /\ (pc' = "done" /\ call'.op = "cfg_channel") =>
            ccr'[call'.ch].mem2mem =
              IF call'.cfg.circular = "Enabled" THEN 0
              ELSE entry'.ccr[call'.ch].mem2mem
    ]_vars

\* cfg_channel has returned from a call with circular disabled on a channel
\* whose MEM2MEM bit was set: the bit is still set.
C22_Witness ==
  /\ AtReturn("cfg_channel")
  /\ call.cfg.circular = "Disabled"
  /\ entry.ccr[call.ch].mem2mem = 1
  /\ ccr[call.ch].mem2mem = 1
  /\ ccr[call.ch].pl = PriorityBits(call.cfg.priority)

\* C23: when the controller applies every written change of EN in the end
\* and raises no transfer error during the call, every enable_interrupt call
\* returns; on a channel that is disabled when the call is made it returns
\* after one read and one write, without polling.
C23_EnableInterruptReturns ==
  /\ (call.op = "enable_interrupt" /\ InCall) ~> (pc = "done")
  /\ [] ((AtReturn("enable_interrupt") /\ entry.ccr[call.ch].en = 0) =>
           /\ Len(trace) = 2
           /\ trace[2].acc = "modify")

\* enable_interrupt has returned on a running channel of a controller with
\* latency: both loops read the old value of EN before they read the new one.
C23_Witness ==
  /\ AtReturn("enable_interrupt")
  /\ latency
  /\ entry.ccr[call.ch].en = 1
  /\ ccr[call.ch].en = 1
  /\ Len(trace) = 8
  /\ trace[3].acc = "read" /\ trace[3].en = 1
  /\ trace[4].acc = "read" /\ trace[4].en = 0
  /\ trace[7].acc = "read" /\ trace[7].en = 0
  /\ trace[8].acc = "read" /\ trace[8].en = 1

\* The state channel c started in: enable_interrupt does not write the
\* peripheral address, which tells the initial states apart.
OriginOf(c) ==
  CHOOSE o \in {InitChannel[i] : i \in 1..Len(InitChannel)} : o.cpar = cpar[c]

\* The control register that started as `r`, on a channel for which the
\* interrupt kinds K have been requested, stopped by a transfer error or not.
WithInterrupts(r, K, stopped) ==
  [r EXCEPT !.teie = IF "TransferError" \in K THEN 1 ELSE @,
            !.htie = IF "HalfTransfer" \in K THEN 1 ELSE @,
            !.tcie = IF "TransferComplete" \in K THEN 1 ELSE @,
            !.en = IF stopped THEN 0 ELSE @]

\* C24: between calls, after any sequence of enable_interrupt calls, the
\* registers of a channel are those it started with, with the
\* interrupt-enable bit of every requested kind set: they depend on the set
\* of kinds requested, not on how often or in which order each was
\* requested (and on whether the hardware has stopped the channel).
C24_DependsOnRequestedSet ==
  ~ InCall =>
    \A c \in DmaChannel :
      LET o == OriginOf(c)
          stopped == isr[c]["TransferError"] = 1
      IN  /\ ccr[c] = WithInterrupts(o.ccr, requested[c], stopped)
          /\ cpar[c] = o.cpar /\ cmar[c] = o.cmar /\ cndtr[c] = o.cndtr
          /\ isr[c] = [o.isr EXCEPT !["TransferError"] = IF stopped THEN 1 ELSE @]

\* Two enable_interrupt calls with different kinds have returned on a running
\* channel that started with neither of the two bits set.
C24_Witness ==
  /\ AtReturn("enable_interrupt")
  /\ ncalls = 2
  /\ requested[call.ch] = {"HalfTransfer", "TransferComplete"}
  /\ OriginOf(call.ch).ccr.htie = 0
  /\ OriginOf(call.ch).ccr.tcie = 0
  /\ ccr[call.ch].htie = 1
  /\ ccr[call.ch].tcie = 1
  /\ ccr[call.ch].en = 1

\* The registers a channel is configured through besides CCR.
TransferRegs == {"cpar", "cmar", "cndtr"}

\* The writes of the trace, among the accesses lo..hi, to transfer register
\* `reg`.
WritesOf(reg, lo, hi) ==
  {k \in lo..hi : trace[k].reg = reg /\ trace[k].acc = "write"}

\* C25: every write that takes the enable bit from 0 to 1 comes
\* after writes of CPAR, CMAR and CNDTR made since the most recent write that
\* took the bit from 1 to 0.
C25_ReconfiguredBeforeEnable ==
  \A i \in 1..Len(trace) :
    (AssignsValue(trace[i], "en", 1) /\ trace[i].en = 0) =>
      LET clears == {j \in 1..(i - 1) :
                       AssignsValue(trace[j], "en", 0) /\ trace[j].en = 1}
          since == IF clears = {} THEN 0
                   ELSE CHOOSE j \in clears : \A m \in clears : m <= j
      IN  \A reg \in TransferRegs : WritesOf(reg, since + 1, i - 1) # {}

\* The mode fields cfg_channel leaves for ChannelCfg::default(): priority
\* medium, no circular mode, memory increment only, 8-bit data on both sides,
\* and the direction passed in.
DefaultModeFields ==
  LET r == ccr[call.ch]
  IN  /\ r.pl = 1
      /\ r.circ = 0
      /\ r.pinc = 0
      /\ r.minc = 1
      /\ r.psize = 0
      /\ r.msize = 0
      /\ r.dir = IF call.direction = "ReadFromMem" THEN 1 ELSE 0

\* C26 as stated: cfg_channel called with ChannelCfg::default() returns with
\* the default mode fields in the control register and EN = 1.
C26_DefaultConfigEnabled ==
  (AtReturn("cfg_channel") /\ call.cfg = ChannelCfgDefault) =>
    DefaultModeFields /\ ccr[call.ch].en = 1

\* C26 as amended: cfg_channel called with ChannelCfg::default() returns with
\* the default mode fields in the control register; EN is 1 when the
\* channel's transfer-error flag is not latched and 0 when it is.
C26_DefaultConfig ==
  (AtReturn("cfg_channel") /\ call.cfg = ChannelCfgDefault) =>
    /\ DefaultModeFields
    /\ isr[call.ch]["TransferError"] = 0 => ccr[call.ch].en = 1
    /\ isr[call.ch]["TransferError"] = 1 => ccr[call.ch].en = 0

\* cfg_channel has returned from a call with the default configuration on a
\* channel that was running with every mode field different from the
\* default: the fields hold the default and the channel is enabled.
C26_Witness ==
  /\ AtReturn("cfg_channel")
  /\ call.cfg = ChannelCfgDefault
  /\ call.direction = "ReadFromPeriph"
  /\ entry.ccr[call.ch].en = 1
  /\ entry.ccr[call.ch].pl = 3
  /\ entry.ccr[call.ch].dir = 1
  /\ entry.ccr[call.ch].pinc = 1
  /\ entry.ccr[call.ch].psize = 2
  /\ ccr[call.ch].pl = 1
  /\ ccr[call.ch].dir = 0
  /\ ccr[call.ch].pinc = 0
  /\ ccr[call.ch].psize = 0
  /\ ccr[call.ch].en = 1
====
